---- MODULE Spec2Model ----
(***************************************************************************)
(* Model of advisor/analyze.py: PermissionAnalyzer.                        *)
(*                                                                         *)
(* Representation.  A path string that begins with '/' is represented by   *)
(* the sequence path.split('/') produces: the empty first segment followed *)
(* by the slash-free segments (a bijection).  Python index k is TLA+ index *)
(* k + 1.  An "owner/repo" string is the pair <<owner, repo>>, an          *)
(* "owner/repo#number" cache key the triple <<owner, repo, number>>.  A    *)
(* dict is a function whose DOMAIN is its key set; a request record is a   *)
(* function on the fields it has.                                          *)
(***************************************************************************)
EXTENDS Integers, Sequences, FiniteSets, TLC

\* ------------------------------------------------------------------ bounds

MaxLen == 2          \* longest request list analysed in one call
MaxCalls == 2        \* analyze calls made on one analyzer

\* ------------------------------------------------------------ string facts

NoRepo == <<>>

\* str.isdigit() on the segments of the model's universe
DigitSegs == {"1", "2", "5", "42"}
isdigit(s) == s \in DigitSegs

\* s.startswith('{') on the segments of the model's universe
BraceSegs == {"{owner}", "{repo}", "{n}"}
startswith_brace(s) == s \in BraceSegs

\* str.lower() on the segments of the model's universe
lower(s) == CASE s = "O" -> "o"
              [] s = "R" -> "r"
              [] OTHER -> s

\* perm.split('+')
split_plus(perm) == IF perm = "issues+pull-requests"
                    THEN <<"issues", "pull-requests">>
                    ELSE <<perm>>

\* parse_qs(query).get('service', [''])[0]
service_of(query) == CASE query = "service=git-upload-pack" -> "git-upload-pack"
                       [] query = "service=git-receive-pack" -> "git-receive-pack"
                       [] OTHER -> ""

\* level_of with the test inverted
level_of_inverted(method) == IF method = "GET" THEN "write" ELSE "read"

\* level_of taking the empty method for a read
level_of_blank_read(method) == IF method \in {"GET", ""} THEN "read" ELSE "write"

\* 'read' if method == 'GET' else 'write'
level_of(method) == IF method = "GET" THEN "read" ELSE "write"

\* ------------------------------------------------------- pattern catalog

R3(a) == <<"", "repos", "{owner}", "{repo}", a>>
R4(a, b) == <<"", "repos", "{owner}", "{repo}", a, b>>
R5(a, b, c) == <<"", "repos", "{owner}", "{repo}", a, b, c>>
R6(a, b, c, d) == <<"", "repos", "{owner}", "{repo}", a, b, c, d>>

\* the list `cases` of _build_special_cases: <<method, path, perm, level>>
cases ==
  { <<"GET", R4("codeowners", "errors"), "contents", "read">>,
    <<"PUT", R5("pulls", "{n}", "merge"), "contents", "write">>,
    <<"PUT", R5("pulls", "{n}", "update-branch"), "contents", "write">>,
    <<"POST", R5("comments", "{n}", "reactions"), "contents", "write">>,
    <<"DELETE", R6("comments", "{n}", "reactions", "{n}"), "contents", "write">>,
    <<"GET", R3("branches"), "contents", "read">>,
    <<"POST", R3("merge-upstream"), "contents", "write">>,
    <<"POST", R3("merges"), "contents", "write">>,
    <<"PATCH", R4("comments", "{n}"), "contents", "write">>,
    <<"DELETE", R4("comments", "{n}"), "contents", "write">>,
    <<"POST", R3("dispatches"), "contents", "write">>,
    <<"POST", R3("issues"), "issues", "write">>,
    <<"GET", R3("labels"), "issues", "read">>,
    <<"POST", R3("labels"), "issues", "write">>,
    <<"GET", R4("labels", "{n}"), "issues", "read">>,
    <<"PATCH", R4("labels", "{n}"), "issues", "write">>,
    <<"DELETE", R4("labels", "{n}"), "issues", "write">>,
    <<"GET", R3("milestones"), "issues", "read">>,
    <<"POST", R3("milestones"), "issues", "write">>,
    <<"GET", R4("milestones", "{n}"), "issues", "read">>,
    <<"PATCH", R4("milestones", "{n}"), "issues", "write">>,
    <<"DELETE", R4("milestones", "{n}"), "issues", "write">>,
    <<"GET", R5("milestones", "{n}", "labels"), "issues", "read">>,
    <<"GET", R3("issues"), "issues+pull-requests", "read">>,
    <<"GET", R4("issues", "comments"), "issues+pull-requests", "read">>,
    <<"GET", R4("issues", "events"), "issues+pull-requests", "read">>,
    <<"GET", R3("assignees"), "issues+pull-requests", "read">> }

\* tuple('*' if s.startswith('{') else s for s in path.split('/')[1:])
template_segments(path) ==
  [j \in 1..(Len(path) - 1) |->
     IF startswith_brace(path[j + 1]) THEN "*" ELSE path[j + 1]]

\* the dict _build_special_cases returns: (method, segments) -> (perm, level)
special_cases ==
  LET keys == { <<c[1], template_segments(c[2])>> : c \in cases }
  IN [k \in keys |->
        LET c == CHOOSE c \in cases : <<c[1], template_segments(c[2])>> = k
        IN <<c[3], c[4]>>]

\* pattern_at replacing every segment of the window, numeric or not
pattern_at_any_trailing(segments, i) ==
  [j \in 1..Len(segments) |->
     IF j - 1 >= Len(segments) - i \/ startswith_brace(segments[j])
     THEN "*" ELSE segments[j]]

\* the candidate pattern of _match_special_case for window i
\* (segments is path.split('/')[1:]; Python j is TLA+ j - 1)
pattern_at(segments, i) ==
  [j \in 1..Len(segments) |->
     IF (j - 1 >= Len(segments) - i /\ isdigit(segments[j]))
        \/ startswith_brace(segments[j])
     THEN "*" ELSE segments[j]]

NoMatch == <<>>

\* _match_special_case(method, path): the entry of the first i in
\* 0..len(segments) whose candidate is a key, None (NoMatch) otherwise
match_special_case(method, path) ==
  LET segments == Tail(path)
      hits == { i \in 0..Len(segments) :
                  <<method, pattern_at(segments, i)>> \in DOMAIN special_cases }
  IN IF hits = {} THEN NoMatch
     ELSE LET i == CHOOSE i \in hits : \A k \in hits : i <= k
          IN special_cases[<<method, pattern_at(segments, i)>>]

\* ------------------------------------------------------------------ state

VARIABLES
  token,          \* self.token is truthy (a credential is configured)
  HAS_REQUESTS,   \* the requests library was importable
  repository,     \* self.repository: NoRepo (falsy) or <<owner, repo>>
  visAnswer,      \* origin API: outcome of GET /repos/{owner}/{repo} per key
  prAnswer,       \* origin API: outcome of GET .../pulls/{number} per key
  repo_cache,     \* self.repo_cache
  pr_cache,       \* self.pr_cache
  outbound,       \* log of the outbound calls this analyzer has made
  requests_data,  \* argument of the current analyze call
  pc,             \* position of the caller / of analyze
  idx,            \* index of the record the for loop of analyze is at
  perms,          \* grants of the current record not yet folded
  permissions,    \* local dict `permissions` of analyze
  result,         \* manifest the last analyze call returned, NoResult before
  calls           \* analyze calls made on this analyzer

config == <<token, HAS_REQUESTS, repository>>
world == <<visAnswer, prAnswer>>
caches == <<repo_cache, pr_cache>>
vars == <<token, HAS_REQUESTS, repository, visAnswer, prAnswer, repo_cache,
          pr_cache, outbound, requests_data, pc, idx, perms, permissions,
          result, calls>>

EmptyDict == <<>>
NoResult == "<none>"
Put(d, k, v) == [x \in (DOMAIN d) \cup {k} |-> IF x = k THEN v ELSE d[x]]

VisOutcomes == {"200-public", "200-private", "non-200", "failure"}
PrOutcomes == {"200", "non-200", "failure"}

\* --------------------------------------------------------- repository filter

\* _is_same_repo comparing without lower()
is_same_repo_case_sensitive(path_segments) ==
  IF repository = NoRepo THEN TRUE
  ELSE IF Len(path_segments) >= 4 /\ path_segments[2] = "repos"
       THEN <<path_segments[3], path_segments[4]>> = repository
       ELSE TRUE

\* _is_same_repo(path_segments)
is_same_repo(path_segments) ==
  IF repository = NoRepo THEN TRUE
  ELSE IF Len(path_segments) >= 4 /\ path_segments[2] = "repos"
       THEN <<lower(path_segments[3]), lower(path_segments[4])>>
            = <<lower(repository[1]), lower(repository[2])>>
       ELSE TRUE

\* ------------------------------------------------------ disambiguation

\* c is the mutable part of the analyzer the lookups touch:
\* [repo_cache, pr_cache, outbound]

\* _is_public_repo assuming public when it cannot check
is_public_repo_failopen(c, repo) ==
  IF ~HAS_REQUESTS \/ ~token THEN [value |-> TRUE, c |-> c]
  ELSE IF repo \in DOMAIN c.repo_cache
       THEN [value |-> c.repo_cache[repo], c |-> c]
       ELSE LET v == (visAnswer[repo] = "200-public")
            IN [value |-> v,
                c |-> [c EXCEPT !.repo_cache = Put(@, repo, v),
                                !.outbound = Append(@, <<"visibility", repo>>)]]

\* _is_public_repo storing nothing when the call raises
is_public_repo_uncached_failure(c, repo) ==
  IF ~HAS_REQUESTS \/ ~token THEN [value |-> FALSE, c |-> c]
  ELSE IF repo \in DOMAIN c.repo_cache
       THEN [value |-> c.repo_cache[repo], c |-> c]
       ELSE LET v == (visAnswer[repo] = "200-public")
            IN [value |-> v,
                c |-> [c EXCEPT !.repo_cache = IF visAnswer[repo] = "failure"
                                                THEN @ ELSE Put(@, repo, v),
                                !.outbound = Append(@, <<"visibility", repo>>)]]

\* _is_public_repo(repo): the value returned and the analyzer afterwards
is_public_repo(c, repo) ==
  IF ~HAS_REQUESTS \/ ~token THEN [value |-> FALSE, c |-> c]
  ELSE IF repo \in DOMAIN c.repo_cache
       THEN [value |-> c.repo_cache[repo], c |-> c]
       ELSE LET v == (visAnswer[repo] = "200-public")
            IN [value |-> v,
                c |-> [c EXCEPT !.repo_cache = Put(@, repo, v),
                                !.outbound = Append(@, <<"visibility", repo>>)]]

\* _is_pull_request storing False when the call raises
is_pull_request_bool(c, owner, repo, issue_number) ==
  IF ~HAS_REQUESTS \/ ~token THEN [value |-> "None", c |-> c]
  ELSE LET cache_key == <<owner, repo, issue_number>>
       IN IF cache_key \in DOMAIN c.pr_cache
          THEN [value |-> c.pr_cache[cache_key], c |-> c]
          ELSE LET v == IF prAnswer[cache_key] = "200" THEN "True" ELSE "False"
               IN [value |-> v,
                   c |-> [c EXCEPT !.pr_cache = Put(@, cache_key, v),
                                   !.outbound = Append(@, <<"identity", cache_key>>)]]

\* _is_pull_request storing nothing when the call raises
is_pull_request_uncached_failure(c, owner, repo, issue_number) ==
  IF ~HAS_REQUESTS \/ ~token THEN [value |-> "None", c |-> c]
  ELSE LET cache_key == <<owner, repo, issue_number>>
       IN IF cache_key \in DOMAIN c.pr_cache
          THEN [value |-> c.pr_cache[cache_key], c |-> c]
          ELSE LET v == CASE prAnswer[cache_key] = "200" -> "True"
                          [] prAnswer[cache_key] = "non-200" -> "False"
                          [] OTHER -> "None"
               IN [value |-> v,
                   c |-> [c EXCEPT !.pr_cache = IF v = "None" THEN @
                                                ELSE Put(@, cache_key, v),
                                   !.outbound = Append(@, <<"identity", cache_key>>)]]

\* _is_pull_request(owner, repo, issue_number): "True", "False" or "None"
is_pull_request(c, owner, repo, issue_number) ==
  IF ~HAS_REQUESTS \/ ~token THEN [value |-> "None", c |-> c]
  ELSE LET cache_key == <<owner, repo, issue_number>>
       IN IF cache_key \in DOMAIN c.pr_cache
          THEN [value |-> c.pr_cache[cache_key], c |-> c]
          ELSE LET v == CASE prAnswer[cache_key] = "200" -> "True"
                          [] prAnswer[cache_key] = "non-200" -> "False"
                          [] OTHER -> "None"
               IN [value |-> v,
                   c |-> [c EXCEPT !.pr_cache = Put(@, cache_key, v),
                                   !.outbound = Append(@, <<"identity", cache_key>>)]]

\* ------------------------------------------------------------ classifier

Ret(ps, c) == [perms |-> ps, c |-> c]

\* `if method == 'GET' and self._is_public_repo(repo): return []`
\* followed by `return [(perm, level)]`
unless_public(c, method, repo, perm) ==
  IF method = "GET"
  THEN LET r == is_public_repo(c, repo)
       IN IF r.value THEN Ret(<<>>, r.c)
          ELSE Ret(<< <<perm, "read">> >>, r.c)
  ELSE Ret(<< <<perm, "write">> >>, c)

\* get_permission from "Git operations via info/refs" to the end
\* (reached when no /repos/{owner}/{repo}/{resource} rule returned)
other_shapes(c, method, segments, query) ==
  LET n == Len(segments)
      inforefs == n >= 5 /\ segments[4] = "info" /\ segments[5] = "refs"
                  /\ query # ""
      service == service_of(query)
  IN IF inforefs /\ service = "git-upload-pack"
     THEN LET r == is_public_repo(c, <<segments[2], segments[3]>>)
          IN IF r.value THEN Ret(<<>>, r.c)
             ELSE Ret(<< <<"contents", "read">> >>, r.c)
     ELSE IF inforefs /\ service = "git-receive-pack"
     THEN Ret(<< <<"contents", "write">> >>, c)
     ELSE IF n >= 4 /\ segments[4] = "git-upload-pack"
     THEN LET r == is_public_repo(c, <<segments[2], segments[3]>>)
          IN IF r.value THEN Ret(<<>>, r.c)
             ELSE Ret(<< <<"contents", "read">> >>, r.c)
     ELSE IF n >= 4 /\ segments[4] = "git-receive-pack"
     THEN Ret(<< <<"contents", "write">> >>, c)
     ELSE IF n >= 5 /\ segments[4] = "releases" /\ segments[5] = "download"
     THEN Ret(<<>>, c)
     ELSE IF \/ n >= 4 /\ segments[2] \in {"orgs", "users"}
                /\ segments[4] = "packages"
             \/ n >= 3 /\ segments[2] = "user" /\ segments[3] = "packages"
     THEN Ret(<< <<"packages", level_of(method)>> >>, c)
     ELSE IF n >= 2 /\ segments[2] = "projects"
     THEN Ret(<< <<"repository-projects", level_of(method)>> >>, c)
     ELSE IF n = 4 /\ segments[2] = "repos" /\ method = "GET"
     THEN Ret(<<>>, c)
     ELSE IF n = 3 /\ segments[2] \in {"repositories", "users"} /\ method = "GET"
     THEN Ret(<<>>, c)
     ELSE Ret(<< <<"unknown", "unknown">> >>, c)

\* the resource -> permission rules that take no lookup
plain_resource(resource) ==
  CASE resource \in {"check-runs", "check-suites"} -> "checks"
    [] resource = "deployments" -> "deployments"
    [] resource = "pages" -> "pages"
    [] resource = "pulls" -> "pull-requests"
    [] resource = "projects" -> "repository-projects"
    [] resource = "code-scanning" -> "security-events"
    [] resource = "statuses" -> "statuses"
    [] OTHER -> ""

\* get_permission from "Pattern-based matching" on (no special case matched)
resolve(c, method, segments, query) ==
  IF Len(segments) >= 5 /\ segments[2] = "repos"
  THEN LET owner == segments[3]
           repo == segments[4]
           resource == segments[5]
           full_repo == <<owner, repo>>
       IN IF resource \in {"actions", "environments"}
          THEN unless_public(c, method, full_repo, "actions")
          ELSE IF resource \in {"check-runs", "check-suites"}
          THEN Ret(<< <<"checks", level_of(method)>> >>, c)
          ELSE IF resource \in {"releases", "git", "commits"}
          THEN unless_public(c, method, full_repo, "contents")
          ELSE IF plain_resource(resource) # ""
          THEN Ret(<< <<plain_resource(resource), level_of(method)>> >>, c)
          ELSE IF resource = "issues" /\ Len(segments) >= 6
                  /\ isdigit(segments[6])
          THEN LET r == is_pull_request(c, owner, repo, segments[6])
               IN IF r.value = "True"
                  THEN Ret(<< <<"pull-requests", level_of(method)>> >>, r.c)
                  ELSE IF r.value = "False"
                  THEN Ret(<< <<"issues", level_of(method)>> >>, r.c)
                  ELSE Ret(<< <<"issues", level_of(method)>>,
                              <<"pull-requests", level_of(method)>> >>, r.c)
          ELSE other_shapes(c, method, segments, query)
  ELSE other_shapes(c, method, segments, query)

\* the grants of a matched catalog entry
special_grants(special) ==
  LET names == split_plus(special[1])
  IN [k \in 1..Len(names) |-> <<names[k], special[2]>>]

\* get_permission(method, path, query): the grants and the analyzer afterwards
get_permission(c, method, path, query) ==
  IF ~is_same_repo(path) THEN Ret(<<>>, c)
  ELSE LET special == match_special_case(method, path)
       IN IF special # NoMatch THEN Ret(special_grants(special), c)
          ELSE resolve(c, method, path, query)

\* req.get(field, default): a record is a function on the fields it has
get(req, field, default) == IF field \in DOMAIN req THEN req[field] ELSE default

\* classify applying the repository filter before the oidc test
classify_filter_first(c, req) ==
  LET method == get(req, "method", "")
      path == get(req, "path", <<"">>)
      query == get(req, "query", "")
      is_oidc == get(req, "oidc", FALSE)
  IN IF ~is_same_repo(path) THEN Ret(<<>>, c)
     ELSE IF is_oidc THEN Ret(<< <<"id-token", "write">> >>, c)
     ELSE get_permission(c, method, path, query)

\* one iteration of the for loop of analyze up to the inner loop:
\* the grants of req and the analyzer afterwards
classify(c, req) ==
  LET method == get(req, "method", "")
      path == get(req, "path", <<"">>)
      query == get(req, "query", "")
      is_oidc == get(req, "oidc", FALSE)
  IN IF is_oidc THEN Ret(<< <<"id-token", "write">> >>, c)
     ELSE get_permission(c, method, path, query)

\* fold that stores the level of the latest grant
fold_overwrite(m, g) ==
  IF g[1] = "unknown" THEN m ELSE Put(m, g[1], g[2])

\* one iteration of the inner loop of analyze: fold grant g into manifest m
fold(m, g) ==
  IF g[1] = "unknown" THEN m
  ELSE IF g[1] \notin DOMAIN m \/ g[2] = "write" THEN Put(m, g[1], g[2])
  ELSE m

\* ------------------------------------------------------------ inputs

Rec(m, p) == [method |-> m, path |-> p]
RecQ(m, p, q) == [method |-> m, path |-> p, query |-> q]
RecOidc(m, p, o) == [method |-> m, path |-> p, oidc |-> o]
RepoPath(o, r, rest) == <<"", "repos", o, r>> \o rest

Methods == {"GET", "POST", "PUT"}
Owners == {<<"o", "r">>, <<"O", "R">>, <<"x", "y">>, <<"1", "2">>}
Rests ==
  { <<>>, <<"issues">>, <<"issues", "42">>, <<"issues", "42", "comments">>,
    <<"issues", "comments">>, <<"issues", "new">>, <<"pulls", "5">>,
    <<"pulls", "5", "merge">>, <<"releases">>,
    <<"releases", "download", "v1", "asset.zip">>, <<"actions", "runs">>,
    <<"commits">>, <<"labels", "1">>, <<"check-runs">>, <<"branches">>,
    <<"hooks">> }
InfoRefs == <<"", "o", "r", "info", "refs">>
OtherPaths ==
  { <<"", "o", "r", "releases", "download", "v1", "asset.zip">>,
    <<"", "o", "r", "git-upload-pack">>, <<"", "o", "r", "git-receive-pack">>,
    InfoRefs, <<"", "anything">>, <<"", "orgs", "o", "packages">>,
    <<"", "user", "packages">>, <<"", "projects", "1">>, <<"", "users", "o">>,
    <<"", "repositories", "1">>,
    <<"", "repos", "{owner}", "{repo}", "issues">>,
    <<"", "repos", "*", "*", "labels">> }
Paths == { RepoPath(w[1], w[2], t) : w \in Owners, t \in Rests } \cup OtherPaths
Queries == {"", "service=git-upload-pack", "service=git-receive-pack", "a=b"}

\* every record a single-record analysis is run on
AllRecords ==
  { Rec(m, p) : m \in Methods, p \in Paths }
  \cup { RecQ(m, InfoRefs, q) : m \in {"GET"}, q \in Queries }
  \cup { [method |-> "POST", path |-> InfoRefs,
          query |-> "service=git-upload-pack", oidc |-> TRUE] }
  \cup { RecOidc(m, p, o) : m \in {"GET", "POST"},
                            p \in {<<"", "anything">>,
                                   RepoPath("x", "y", <<"issues">>),
                                   RepoPath("o", "r", <<"actions", "runs">>)},
                            o \in BOOLEAN }
  \cup { [path |-> p] : p \in {RepoPath("o", "r", <<"pulls", "5">>),
                                RepoPath("o", "r", <<"actions", "runs">>),
                                <<"", "anything">>} }
  \cup { [method |-> m] : m \in Methods }
  \cup { [oidc |-> TRUE], [host |-> "api.github.com"] }

\* the records request lists are drawn from
Records ==
  { Rec("GET", RepoPath("o", "r", <<"issues", "42">>)),
    Rec("POST", RepoPath("o", "r", <<"issues", "42", "comments">>)),
    Rec("GET", RepoPath("o", "r", <<"actions", "runs">>)),
    Rec("GET", RepoPath("o", "r", <<"commits">>)),
    Rec("POST", RepoPath("o", "r", <<"actions", "runs">>)),
    Rec("GET", RepoPath("O", "R", <<"releases">>)),
    Rec("GET", <<"", "o", "r", "git-upload-pack">>),
    RecOidc("GET", <<"", "anything">>, TRUE),
    [path |-> RepoPath("o", "r", <<"actions", "runs">>)],
    [method |-> "GET"] }

SeqsUpTo(S, n) == UNION { [1..k -> S] : k \in 0..n }

Inputs == SeqsUpTo(Records, MaxLen) \cup { <<r>> : r \in AllRecords }

path_of(req) == get(req, "path", <<"">>)

\* the repository keys a visibility call can be made for on record req
RepoKeysOf(req) ==
  LET p == path_of(req)
  IN (IF Len(p) >= 5 /\ p[2] = "repos" /\ get(req, "method", "") = "GET"
         /\ p[5] \in {"actions", "environments", "releases", "git", "commits"}
      THEN {<<p[3], p[4]>>} ELSE {})
     \cup (IF Len(p) >= 4 /\ p[4] \in {"info", "git-upload-pack"}
           THEN {<<p[2], p[3]>>} ELSE {})

\* the issue keys an identity call can be made for on record req
IssueKeysOf(req) ==
  LET p == path_of(req)
  IN IF Len(p) >= 6 /\ p[2] = "repos" /\ p[5] = "issues" /\ isdigit(p[6])
     THEN {<<p[3], p[4], p[6]>>} ELSE {}

RepoKeys(data) == UNION { RepoKeysOf(data[k]) : k \in DOMAIN data }
IssueKeys(data) == UNION { IssueKeysOf(data[k]) : k \in DOMAIN data }

\* ------------------------------------------------------------ actions

Mut == [repo_cache |-> repo_cache, pr_cache |-> pr_cache, outbound |-> outbound]

\* PermissionAnalyzer(token, repository): main reads them from the environment
Init ==
  /\ token \in BOOLEAN
  /\ HAS_REQUESTS \in BOOLEAN
  /\ repository \in {NoRepo, <<"o", "r">>}
  /\ visAnswer = EmptyDict
  /\ prAnswer = EmptyDict
  /\ repo_cache = EmptyDict
  /\ pr_cache = EmptyDict
  /\ outbound = <<>>
  /\ requests_data = <<>>
  /\ pc = "idle"
  /\ idx = 0
  /\ perms = <<>>
  /\ permissions = EmptyDict
  /\ result = NoResult
  /\ calls = 0

\* Enter with both caches made anew for the call
EnterFresh(data) ==
  /\ requests_data' = data
  /\ IF HAS_REQUESTS /\ token
     THEN /\ visAnswer' \in [RepoKeys(data) -> VisOutcomes]
          /\ prAnswer' \in [IssueKeys(data) -> PrOutcomes]
     ELSE /\ visAnswer' = [k \in RepoKeys(data) |-> "failure"]
          /\ prAnswer' = [k \in IssueKeys(data) |-> "failure"]
  /\ permissions' = EmptyDict
  /\ perms' = <<>>
  /\ idx' = 1
  /\ pc' = "loop"
  /\ calls' = calls + 1
  /\ repo_cache' = EmptyDict
  /\ pr_cache' = EmptyDict
  /\ UNCHANGED <<config, outbound, result>>

\* analyze(requests_data) is entered: `permissions = {}`; the origin API's
\* answers for the keys of this run are whatever they are at this time
Enter(data) ==
  /\ requests_data' = data
  /\ IF HAS_REQUESTS /\ token
     THEN /\ visAnswer' \in [RepoKeys(data) -> VisOutcomes]
          /\ prAnswer' \in [IssueKeys(data) -> PrOutcomes]
     ELSE /\ visAnswer' = [k \in RepoKeys(data) |-> "failure"]
          /\ prAnswer' = [k \in IssueKeys(data) |-> "failure"]
  /\ permissions' = EmptyDict
  /\ perms' = <<>>
  /\ idx' = 1
  /\ pc' = "loop"
  /\ calls' = calls + 1
  /\ UNCHANGED <<config, caches, outbound, result>>

\* the first analyze call on a new analyzer
Analyze ==
  /\ pc = "idle"
  /\ \E data \in Inputs : Enter(data)

\* for req in requests_data: ... perms = [('id-token', 'write')] or
\* self.get_permission(method, path, query)
Classify ==
  /\ pc = "loop"
  /\ idx <= Len(requests_data)
  /\ LET r == classify(Mut, requests_data[idx])
     IN /\ perms' = r.perms
        /\ repo_cache' = r.c.repo_cache
        /\ pr_cache' = r.c.pr_cache
        /\ outbound' = r.c.outbound
  /\ pc' = "fold"
  /\ UNCHANGED <<config, world, requests_data, idx, permissions, result, calls>>

\* for perm, level in perms: one grant folded into permissions
FoldGrant ==
  /\ pc = "fold"
  /\ perms # <<>>
  /\ permissions' = fold(permissions, Head(perms))
  /\ perms' = Tail(perms)
  /\ UNCHANGED <<config, world, caches, outbound, requests_data, pc, idx,
                 result, calls>>

\* the inner loop is exhausted: on to the next record
NextRecord ==
  /\ pc = "fold"
  /\ perms = <<>>
  /\ idx' = idx + 1
  /\ pc' = "loop"
  /\ UNCHANGED <<config, world, caches, outbound, requests_data, perms,
                 permissions, result, calls>>

\* the outer loop is exhausted: return permissions
Return ==
  /\ pc = "loop"
  /\ idx > Len(requests_data)
  /\ result' = permissions
  /\ pc' = "returned"
  /\ UNCHANGED <<config, world, caches, outbound, requests_data, idx, perms,
                 permissions, calls>>

Next == Analyze \/ Classify \/ FoldGrant \/ NextRecord \/ Return

Spec == Init /\ [][Next]_vars

\* --------------------------------------------- an analyzer used again

\* the records the request lists of a reused analyzer are drawn from
ReuseRecords ==
  { Rec("GET", RepoPath("o", "r", <<"actions", "runs">>)),
    Rec("GET", RepoPath("o", "r", <<"commits">>)),
    Rec("GET", RepoPath("o", "r", <<"issues", "42">>)),
    Rec("POST", RepoPath("o", "r", <<"issues", "42", "comments">>)) }

\* a reused analyzer is given the empty list or one record per call
ReuseInputs == {<<>>} \cup { <<r>> : r \in ReuseRecords }

\* analyze is called on an analyzer, new or used before
AnalyzeAgain ==
  /\ pc \in {"idle", "returned"}
  /\ calls < MaxCalls
  /\ \E data \in ReuseInputs : Enter(data)

\* PermissionAnalyzer.__init__: another analyzer replaces the one in use
\* (the finished call's locals and result are dropped with it)
Construct ==
  /\ pc = "returned"
  /\ token' \in BOOLEAN
  /\ HAS_REQUESTS' \in BOOLEAN
  /\ repository' \in {NoRepo, <<"o", "r">>}
  /\ repo_cache' = EmptyDict
  /\ pr_cache' = EmptyDict
  /\ outbound' = <<>>
  /\ calls' = 0
  /\ pc' = "idle"
  /\ visAnswer' = EmptyDict
  /\ prAnswer' = EmptyDict
  /\ requests_data' = <<>>
  /\ idx' = 0
  /\ perms' = <<>>
  /\ permissions' = EmptyDict
  /\ result' = NoResult

NextReuse ==
  AnalyzeAgain \/ Classify \/ FoldGrant \/ NextRecord \/ Return \/ Construct

SpecReuse == Init /\ [][NextReuse]_vars

\* ------------------------------------------- analyze as a function

RECURSIVE fold_all(_, _)
\* the inner loop of analyze over the grants gs
fold_all(m, gs) == IF gs = <<>> THEN m ELSE fold_all(fold(m, Head(gs)), Tail(gs))

RECURSIVE run(_, _, _)
\* the outer loop of analyze over data, from analyzer c and manifest m
run(data, c, m) ==
  IF data = <<>> THEN m
  ELSE LET r == classify(c, Head(data))
       IN run(Tail(data), r.c, fold_all(m, r.perms))

Fresh == [repo_cache |-> EmptyDict, pr_cache |-> EmptyDict, outbound |-> <<>>]

\* analyze(data) on a new analyzer
analyze(data) == run(data, Fresh, EmptyDict)

Permuted(data, f) == [k \in DOMAIN data |-> data[f[k]]]

Count(log, e) == Cardinality({k \in DOMAIN log : log[k] = e})

ActionsRuns == RepoPath("o", "r", <<"actions", "runs">>)

\* ------------------------------------------------------------ claims

\* C1: for a fixed assignment of answers to repository and issue keys,
\* analyze returns the same manifest for every permutation of the list.
C1_PermutationInvariant ==
  (pc = "returned" /\ calls = 1) =>
     \A f \in Permutations(DOMAIN requests_data) :
        analyze(Permuted(requests_data, f)) = result

\* C1 witness: a read and a write grant for one permission, with lookups on
C1_Witness ==
  /\ pc = "returned"
  /\ token /\ HAS_REQUESTS
  /\ requests_data = <<Rec("GET", ActionsRuns), Rec("POST", ActionsRuns)>>
  /\ visAnswer[<<"o", "r">>] = "200-private"
  /\ result = [x \in {"actions"} |-> "write"]

\* C2: during the fold, a permission held at write stays at write after
\* every later grant, and no entry of the manifest is ever removed.
C2_WriteIsKept ==
  [][pc = "fold" =>
       \A p \in DOMAIN permissions :
          /\ p \in DOMAIN permissions'
          /\ (permissions[p] = "write" => permissions'[p] = "write")]_vars

\* C2 witness: a read grant for actions was folded after a write grant
C2_Witness ==
  /\ requests_data = <<Rec("POST", ActionsRuns), Rec("GET", ActionsRuns)>>
  /\ ~token
  /\ pc = "fold" /\ idx = 2 /\ perms = <<>>
  /\ permissions = [x \in {"actions"} |-> "write"]

\* ---------------------------------------------- vocabulary of the claims

Single(req) == pc = "returned" /\ calls = 1 /\ requests_data = <<req>>
CanLookUp == HAS_REQUESTS /\ token
Current == requests_data[idx]
\* the step of analyze that classifies the record at idx
Classifying == pc = "loop" /\ idx <= Len(requests_data) /\ pc' = "fold"
IsOidc(req) == "oidc" \in DOMAIN req /\ req.oidc = TRUE
HasPath(req) == "path" \in DOMAIN req
HasMethod(req) == "method" \in DOMAIN req
InScope(req) == is_same_repo(path_of(req))
OwnerRepo == <<"o", "r">>

MergePath == RepoPath("o", "r", <<"pulls", "5", "merge">>)
DownloadPath == RepoPath("o", "r", <<"releases", "download", "v1", "asset.zip">>)
Issue42 == RepoPath("o", "r", <<"issues", "42">>)
Pulls5 == RepoPath("o", "r", <<"pulls", "5">>)

\* C3 as claimed: POST /repos/o/r/pulls/5/merge alone yields {contents: write}.
C3_Original ==
  Single(Rec("POST", MergePath)) => result = ("contents" :> "write")

\* C3 amended: POST /repos/o/r/pulls/5/merge alone yields exactly
\* {pull-requests: write}; no catalog entry matches it (the catalog's merge
\* entry is for PUT), so the grant is the generic pulls rule's.
C3_PostMergeIsPullRequests ==
  Single(Rec("POST", MergePath)) =>
     /\ result = ("pull-requests" :> "write")
     /\ match_special_case("POST", MergePath) = NoMatch

\* C3 witness: the record was analysed
C3_Witness == Single(Rec("POST", MergePath)) /\ DOMAIN result = {"pull-requests"}

\* C4 as claimed: GET /repos/o/r/releases/download/v1/asset.zip alone
\* yields the empty manifest in every configuration.
C4_Original == Single(Rec("GET", DownloadPath)) => result = EmptyDict

\* C4 amended: GET /repos/o/r/releases/download/v1/asset.zip alone yields the
\* empty manifest only when o/r is confirmed public, {contents: read}
\* otherwise (so with no credential); the path without the /repos prefix,
\* /o/r/releases/download/v1/asset.zip, yields the empty manifest and no
\* outbound call in every configuration.
C4_DownloadNeedsPublicRepo ==
  /\ Single(Rec("GET", DownloadPath)) =>
        result = IF CanLookUp /\ visAnswer[OwnerRepo] = "200-public"
                 THEN EmptyDict ELSE ("contents" :> "read")
  /\ Single(Rec("GET", <<"", "o", "r", "releases", "download", "v1", "asset.zip">>))
        => result = EmptyDict /\ outbound = <<>>

\* C4 witness: the download analysed with no credential
C4_Witness ==
  Single(Rec("GET", DownloadPath)) /\ ~token /\ result = ("contents" :> "read")

IssueShaped(p) ==
  Len(p) >= 6 /\ p[2] = "repos" /\ p[5] = "issues" /\ isdigit(p[6])

\* the identity check for the issue of path p has no answer
Unresolved(p) ==
  LET key == <<p[3], p[4], p[6]>>
  IN \/ ~CanLookUp
     \/ key \in DOMAIN pr_cache /\ pr_cache[key] = "None"
     \/ key \notin DOMAIN pr_cache /\ prAnswer[key] = "failure"

\* C5: an in-scope record for /repos/{owner}/{repo}/issues/{number}[/...]
\* whose identity check is unresolved yields exactly the grants issues and
\* pull-requests, both read for GET and both write otherwise; GET
\* /repos/o/r/issues/42 with no credential gives {issues: read,
\* pull-requests: read}.
C5_UnresolvedGivesBoth ==
  /\ [][(/\ Classifying
         /\ ~IsOidc(Current) /\ HasPath(Current) /\ HasMethod(Current)
         /\ IssueShaped(Current.path) /\ InScope(Current)
         /\ Unresolved(Current.path))
        => LET lvl == IF Current.method = "GET" THEN "read" ELSE "write"
           IN perms' = << <<"issues", lvl>>, <<"pull-requests", lvl>> >>]_vars
  /\ [](Single(Rec("GET", Issue42)) /\ ~token
        => result = ("issues" :> "read" @@ "pull-requests" :> "read"))

\* C5 witness: a second record for o/r#42 is classified after the identity
\* call for the key failed
C5_Witness ==
  /\ CanLookUp
  /\ requests_data = <<Rec("GET", Issue42),
                       Rec("POST", RepoPath("o", "r", <<"issues", "42", "comments">>))>>
  /\ prAnswer[<<"o", "r", "42">>] = "failure"
  /\ pc = "fold" /\ idx = 2
  /\ perms = << <<"issues", "write">>, <<"pull-requests", "write">> >>

\* C6: a record with oidc = true yields exactly the grant (id-token, write)
\* and touches neither cache and makes no outbound call, whatever its
\* method, path, query and the configured repository; the manifest of a
\* list with such a record holds id-token at write.
C6_OidcShortCircuit ==
  /\ [][(Classifying /\ IsOidc(Current))
        => /\ perms' = << <<"id-token", "write">> >>
           /\ UNCHANGED <<caches, outbound>>]_vars
  /\ []((pc = "returned"
         /\ \E k \in DOMAIN requests_data : IsOidc(requests_data[k]))
        => "id-token" \in DOMAIN result /\ result["id-token"] = "write")

\* C6 witness: an OIDC record for another repository than the configured one
C6_Witness ==
  /\ Single(RecOidc("GET", RepoPath("x", "y", <<"issues">>), TRUE))
  /\ repository = OwnerRepo
  /\ result = ("id-token" :> "write")

\* equal under case-insensitive comparison, on the letters of the universe
SameIgnoringCase(a, b) == a = b \/ {a, b} = {"o", "O"} \/ {a, b} = {"r", "R"}
ReposShape(p) == Len(p) >= 5 /\ p[2] = "repos"

\* C7: with a target repository configured, a non-OIDC record for
\* /repos/{owner}/{repo}/... yields no grant (and no lookup) when
\* {owner}/{repo} differs from the target case-insensitively, and is
\* classified by the catalog and the resolver when it differs at most in
\* letter case.
C7_RepositoryFilter ==
  [][(/\ Classifying
      /\ repository # NoRepo
      /\ ~IsOidc(Current) /\ HasPath(Current)
      /\ ReposShape(Current.path))
     => LET p == Current.path
            m == get(Current, "method", "")
            q == get(Current, "query", "")
            special == match_special_case(m, p)
        IN IF SameIgnoringCase(p[3], repository[1])
              /\ SameIgnoringCase(p[4], repository[2])
           THEN perms' = IF special # NoMatch THEN special_grants(special)
                         ELSE resolve(Mut, m, p, q).perms
           ELSE perms' = <<>> /\ UNCHANGED <<caches, outbound>>]_vars

\* C7 witness: a record whose repository differs only in letter case was
\* analysed with o/r configured
C7_Witness ==
  /\ Single(Rec("GET", RepoPath("O", "R", <<"releases">>)))
  /\ repository = OwnerRepo /\ ~token
  /\ result = ("contents" :> "read")

\* C8: within one analysis run at most one outbound visibility call is made
\* per repository key, whatever the outcome of the first.
C8_OneVisibilityCallPerKey ==
  \A k \in DOMAIN outbound :
     outbound[k][1] = "visibility" => Count(outbound, outbound[k]) = 1

\* C8 witness: two records needing the visibility of o/r, the call failed
C8_Witness ==
  /\ pc = "returned"
  /\ requests_data = <<Rec("GET", ActionsRuns),
                       Rec("GET", RepoPath("o", "r", <<"commits">>))>>
  /\ CanLookUp /\ visAnswer[OwnerRepo] = "failure"
  /\ outbound = << <<"visibility", OwnerRepo>> >>
  /\ result = ("actions" :> "read" @@ "contents" :> "read")

Malformed(data) ==
  \E k \in DOMAIN data : ~HasMethod(data[k]) \/ ~HasPath(data[k])

\* C9 as claimed: a list with a record lacking method or path is rejected
\* before any record is classified.
C9_Original ==
  Malformed(requests_data) =>
     /\ pc \notin {"fold", "returned"}
     /\ permissions = EmptyDict /\ outbound = <<>> /\ result = NoResult

\* C9 amended: a record lacking method or path is not rejected: a missing
\* method is read as '' (a non-GET method: the record is classified as the
\* same record with method ''), a missing path as '' (the unknown grant, which
\* is dropped), and analyze returns a manifest; {path: /repos/o/r/pulls/5}
\* alone yields {pull-requests: write}, {method: GET} alone yields {}.
C9_MissingFieldsDefault ==
  /\ [][(Classifying /\ ~IsOidc(Current) /\ ~HasPath(Current))
        => perms' = << <<"unknown", "unknown">> >>
           /\ UNCHANGED <<caches, outbound>>]_vars
  /\ [][(Classifying /\ ~HasMethod(Current))
        => perms' = classify(Mut, Put(Current, "method", "")).perms]_vars
  /\ [](Single([path |-> Pulls5]) => result = ("pull-requests" :> "write"))
  /\ [](Single([path |-> ActionsRuns])
        => result = ("actions" :> "write") /\ outbound = <<>>)
  /\ [](Single([method |-> "GET"]) => result = EmptyDict)

\* C9 witness: a manifest was returned for a record with no method
C9_Witness ==
  Single([path |-> Pulls5]) /\ result = ("pull-requests" :> "write")

\* C10 as claimed: both caches are empty when an analyze call starts.
C10_Original ==
  (pc = "loop" /\ idx = 1) => repo_cache = EmptyDict /\ pr_cache = EmptyDict

\* C10 amended: the caches belong to the analyzer, not to the analyze call:
\* they are empty at the first analyze call of a new analyzer and kept
\* across the calls made on it, so over all its calls an analyzer makes at
\* most one outbound call per key and every cached key is one it called for.
C10_CachesLivePerAnalyzer ==
  /\ (pc = "loop" /\ idx = 1 /\ calls = 1)
        => repo_cache = EmptyDict /\ pr_cache = EmptyDict
  /\ \A k \in DOMAIN outbound : Count(outbound, outbound[k]) = 1
  /\ DOMAIN repo_cache
       = { outbound[k][2] : k \in {j \in DOMAIN outbound : outbound[j][1] = "visibility"} }
  /\ DOMAIN pr_cache
       = { outbound[k][2] : k \in {j \in DOMAIN outbound : outbound[j][1] = "identity"} }

\* C10 witness: the second analyze call on an analyzer answers from the
\* cache (public) although the repository is private by then
C10_Witness ==
  /\ calls = 2 /\ pc = "returned"
  /\ requests_data = <<Rec("GET", ActionsRuns)>>
  /\ OwnerRepo \in DOMAIN repo_cache /\ repo_cache[OwnerRepo] = TRUE
  /\ visAnswer[OwnerRepo] = "200-private"
  /\ outbound = << <<"visibility", OwnerRepo>> >>
  /\ result = EmptyDict

IssueKeyOf(p) == <<p[3], p[4], p[6]>>

\* C11: with a credential configured, a transport failure of the identity
\* call for an issue key does not stop the run and is not retried in it:
\* the key is cached as unknown (None, not False), at most one identity call
\* is made for it, and every record for the key yields both the issues and
\* the pull-requests grant.
C11_FailureIsCachedAsUnknown ==
  /\ [](CanLookUp =>
          \A key \in DOMAIN prAnswer :
             prAnswer[key] = "failure" =>
                /\ Count(outbound, <<"identity", key>>) <= 1
                /\ key \in DOMAIN pr_cache => pr_cache[key] = "None")
  /\ [][(/\ Classifying /\ CanLookUp
         /\ ~IsOidc(Current) /\ HasPath(Current)
         /\ IssueShaped(Current.path) /\ InScope(Current)
         /\ prAnswer[IssueKeyOf(Current.path)] = "failure")
        => LET key == IssueKeyOf(Current.path)
               lvl == level_of(get(Current, "method", ""))
           IN /\ perms' = << <<"issues", lvl>>, <<"pull-requests", lvl>> >>
              /\ key \in DOMAIN pr_cache' /\ pr_cache'[key] = "None"
              /\ Count(outbound', <<"identity", key>>) = 1]_vars
  /\ [](pc \in {"loop", "fold"} => ENABLED Next)

\* C11 witness: two records for o/r#42 were analysed to the end although the
\* one identity call made for the key failed
C11_Witness ==
  /\ CanLookUp /\ pc = "returned"
  /\ requests_data = <<Rec("GET", Issue42),
                       Rec("POST", RepoPath("o", "r", <<"issues", "42", "comments">>))>>
  /\ prAnswer[<<"o", "r", "42">>] = "failure"
  /\ outbound = << <<"identity", <<"o", "r", "42">>>> >>
  /\ pr_cache[<<"o", "r", "42">>] = "None"
  /\ result = ("issues" :> "write" @@ "pull-requests" :> "write")

\* candidate i as the claim words it: the wildcard exactly at the numeric
\* segments among the trailing i
NumericTrailing(segments, i) ==
  [j \in 1..Len(segments) |->
     IF j > Len(segments) - i /\ isdigit(segments[j]) THEN "*" ELSE segments[j]]

\* candidate i with the segments that start with '{' replaced as well
NumericTrailingOrBrace(segments, i) ==
  [j \in 1..Len(segments) |->
     IF (j > Len(segments) - i /\ isdigit(segments[j]))
        \/ startswith_brace(segments[j])
     THEN "*" ELSE segments[j]]

\* r is the catalog entry of the smallest i in 0..n whose candidate Cand(_, i)
\* is a key for method, no match when there is none
IsFirstHit(r, method, segments, Cand(_, _)) ==
  LET Hit(i) == <<method, Cand(segments, i)>> \in DOMAIN special_cases
  IN \/ \E i \in 0..Len(segments) :
          /\ Hit(i)
          /\ \A k \in 0..(i - 1) : ~Hit(k)
          /\ r = special_cases[<<method, Cand(segments, i)>>]
     \/ /\ \A i \in 0..Len(segments) : ~Hit(i)
        /\ r = NoMatch

\* the record analyze is about to classify has a method and a path
AtRecord ==
  pc = "loop" /\ idx <= Len(requests_data)
  /\ HasMethod(Current) /\ HasPath(Current)

\* C12 as claimed: the matcher returns the first hit over the candidates
\* that replace exactly the numeric segments of the trailing window.
C12_Original ==
  AtRecord =>
     IsFirstHit(match_special_case(Current.method, Current.path),
                Current.method, Tail(Current.path), NumericTrailing)

\* C12 amended: _match_special_case returns the catalog entry of the
\* smallest i in 0..n whose candidate is a catalog key, and no match if there
\* is none, where candidate i replaces the segment at position j by the
\* wildcard if and only if the segment is entirely numeric and lies in the
\* trailing i segments, or the segment starts with '{' (at any position);
\* a catalog key equal to the literal path wins over every wildcarded key.
C12_FirstHitWithBraces ==
  AtRecord =>
     LET m == Current.method
         segments == Tail(Current.path)
         r == match_special_case(m, Current.path)
     IN /\ IsFirstHit(r, m, segments, NumericTrailingOrBrace)
        /\ <<m, segments>> \in DOMAIN special_cases
              => r = special_cases[<<m, segments>>]

\* C12 witness: /repos/1/2/labels/1 is matched only once the window spans
\* the numeric owner (i = 4), not before
C12_Witness ==
  /\ AtRecord
  /\ Current = Rec("GET", RepoPath("1", "2", <<"labels", "1">>))
  /\ match_special_case("GET", Current.path) = <<"issues", "read">>
  /\ \A i \in 0..3 :
        <<"GET", NumericTrailingOrBrace(Tail(Current.path), i)>>
           \notin DOMAIN special_cases

\* the path is /repos/{owner}/{repo}/issues, with no issue number
IssuesList(p) == Len(p) = 5 /\ p[2] = "repos" /\ p[5] = "issues"

\* C13: the catalog entry GET /repos/{owner}/{repo}/issues matches for every
\* owner and repository name, numeric or not: an in-scope GET record for
\* /repos/{owner}/{repo}/issues alone yields exactly issues: read and
\* pull-requests: read, the grants of the compound rule
\* issues+pull-requests.
C13_IssuesListGivesBoth ==
  (/\ pc = "returned" /\ calls = 1 /\ Len(requests_data) = 1
   /\ HasMethod(requests_data[1]) /\ HasPath(requests_data[1])
   /\ ~IsOidc(requests_data[1])
   /\ requests_data[1].method = "GET"
   /\ IssuesList(requests_data[1].path)
   /\ InScope(requests_data[1]))
  => result = ("issues" :> "read" @@ "pull-requests" :> "read")

====
